---- MODULE Spec2Model ----
(***************************************************************************)
(* Homework answer bot (src/main.py): the grade registry, the shared chat  *)
(* session, and the five update handlers registered in main().             *)
(*                                                                         *)
(* Texts (messages, prompts, callback data, model responses) are sequences *)
(* of string tokens, so that str.replace, str.strip and the f-strings are  *)
(* computed rather than assumed.                                           *)
(*                                                                         *)
(* A handler is a coroutine: it runs without interruption from one await   *)
(* to the next.  A coroutine suspended at an await that has code after it  *)
(* is a frame; other handlers may run while it is suspended.  The last     *)
(* await of a handler has nothing after it, so the step that issues it     *)
(* also ends the handler; the invocation that ended stays in view for one   *)
(* state, until the application goes on to its next piece of work.  The    *)
(* transport's send operations (reply_text, answer, edit_message_text)     *)
(* deliver; get_file, download_as_bytearray, Image.open, send_message and  *)
(* generate_content may fail.                                              *)
(***************************************************************************)
EXTENDS Integers, Sequences, FiniteSets, Bags, TLC

\* ------------------------------------------------------------------ bounds
\* Coroutines that may be suspended at the same time.
MaxInflight == 2
\* Exchanges the shared chat session may hold (text questions are no longer
\* delivered once it is full).
MaxHistory == 2

\* ------------------------------------------------------------------ inputs
Users == {"A", "B"}

\* update.message.text of each user's text messages.
QuestionOf(u) == IF u = "A" THEN <<"What is 7x8?">> ELSE <<"Capital of France?">>

\* query.data of each user's callback updates.  A: the three buttons, a
\* doubled prefix, a remainder that is no token, and data of another
\* keyboard.  B, the second user: one button and a remainder that is no token.
CallbackData(u) ==
  IF u = "A"
  THEN { <<"grade_", "1-5">>, <<"grade_", "6-8">>, <<"grade_", "9-12">>,
         <<"grade_", "grade_", "6-8">>, <<"grade_", "13+">>, <<"lang_", "en">> }
  ELSE { <<"grade_", "9-12">>, <<"grade_", "13+">> }

\* update.message.photo of each user's photo messages: the sizes of one
\* photo, smallest first (file ids).
PhotoInputs(u) ==
  IF u = "A" THEN { <<"thumb", "full">>, <<"thumb", "torn">> } ELSE { <<"thumb", "full">> }

\* What download_as_bytearray yields for a file.
FileBytes(file_id) ==
  CASE file_id = "thumb" -> "jpeg_small"
    [] file_id = "full" -> "jpeg_large"
    [] OTHER -> "garbage"

\* Raw response.text values of the two endpoints.
ChatResponses == { <<" ">>, <<" ", "56", "\n">> }
VisionResponses == { <<>>, <<" ">>, <<"1) 56", "\n">> }

Whitespace == {" ", "\n", "\t"}

\* ------------------------------------------------------------ fixed texts
ConfigureFirst == <<"Please set your child's grade level first using /start">>
TextApology == <<"Sorry, I couldn't process that question. Please try again.">>
ImageApology == <<"Sorry, I couldn't read that image. Please try a clearer photo.">>
PhotoErrorApology ==
  <<"Sorry, there was an error processing your photo. Please try again.">>
Analyzing == <<"Analyzing homework...">>
Welcome == <<"Welcome to the Homework Answer Bot!\n\nPlease select your child's grade level:">>
SelectNew == <<"Select new grade level:">>

\* A keyboard without the last button.
KeyboardOfTwo == << <<"grade_", "1-5">>, <<"grade_", "6-8">> >>

\* The inline keyboard of start and change_grade: the callback_data of its
\* buttons.
Keyboard == << <<"grade_", "1-5">>, <<"grade_", "6-8">>, <<"grade_", "9-12">> >>

\* The absence value (Python None).
None == <<"<None>">>

\* ---------------------------------------------------------------- helpers
\* The table with two labels exchanged.
GRADE_LEVELS_Swapped ==
  [k \in { <<"1-5">>, <<"6-8">>, <<"9-12">> } |->
     CASE k = <<"1-5">> -> "elementary"
       [] k = <<"6-8">> -> "high"
       [] k = <<"9-12">> -> "middle"]

\* GRADE_LEVELS, keyed by the text of the token.
GRADE_LEVELS ==
  [k \in { <<"1-5">>, <<"6-8">>, <<"9-12">> } |->
     CASE k = <<"1-5">> -> "elementary"
       [] k = <<"6-8">> -> "middle"
       [] k = <<"9-12">> -> "high"]

\* str.removeprefix(tok): only a leading tok is removed.
RemovePrefix(text, tok) ==
  IF text # <<>> /\ Head(text) = tok THEN Tail(text) ELSE text

RECURSIVE Remove(_, _)
\* str.replace(tok, ""): every occurrence of tok is removed.
Remove(text, tok) ==
  IF text = <<>> THEN <<>>
  ELSE IF Head(text) = tok THEN Remove(Tail(text), tok)
  ELSE <<Head(text)>> \o Remove(Tail(text), tok)

RECURSIVE LStrip(_)
LStrip(text) ==
  IF text # <<>> /\ Head(text) \in Whitespace THEN LStrip(Tail(text)) ELSE text

RECURSIVE RStrip(_)
RStrip(text) ==
  IF text # <<>> /\ text[Len(text)] \in Whitespace
  THEN RStrip(SubSeq(text, 1, Len(text) - 1))
  ELSE text

\* str.strip()
Strip(text) == RStrip(LStrip(text))

\* Python truthiness of an Optional[str].
Truthy(x) == x # None /\ x # <<>>

\* pattern="^grade_" of the CallbackQueryHandler.
MatchesPattern(data) == data # <<>> /\ Head(data) = "grade_"

\* A prompt that names a fixed grade instead of the user's.
ChatPromptFixedGrade(question, grade_level) ==
  <<"You are helping with ", "elementary", " school homework. Question: ">>
    \o question
    \o <<"\n\nProvide ONLY the direct answer. No explanations unless specifically asked.\nFormat the answer neatly and clearly.">>

\* The prompt f-string of get_homework_help.
ChatPrompt(question, grade_level) ==
  <<"You are helping with ", grade_level, " school homework. Question: ">>
    \o question
    \o <<"\n\nProvide ONLY the direct answer. No explanations unless specifically asked.\nFormat the answer neatly and clearly.">>

\* An image prompt that names a fixed grade instead of the user's.
ImagePromptFixedGrade(grade_level) ==
  <<"You are helping with ", "elementary",
    " school homework.\nLook at the image, solve any problems shown, and provide the answers. ...">>

\* The prompt f-string of analyze_homework_image.
ImagePrompt(grade_level) ==
  <<"You are helping with ", grade_level,
    " school homework.\nLook at the image, solve any problems shown, and provide the answers. ...">>

\* Image.open: the bytes that decode.
Decodable(bytes) == bytes \in {"jpeg_small", "jpeg_large"}

\* ------------------------------------------------------------------ state
VARIABLES
  user_grades,  \* user_grades: Dict[int, str]
  history,      \* chat_session.history: the prompts of the exchanges it holds
  frames,       \* the suspended handler coroutines (a bag)
  done,         \* the handler invocation that ended in the last step
  environ,      \* os.environ after load_dotenv: the variables that are set
  process       \* where the process is: its position in the module, or the
                \* exception that ended it

vars == <<user_grades, history, frames, done, environ, process>>

\* One call a handler made: the callee, its text argument, what went with
\* it (the keyboard of a prompt, the session context of a chat call) and,
\* for a call that is not awaited, what it gave back.
Event(call, arg, extra, result) ==
  [call |-> call, arg |-> arg, extra |-> extra, result |-> result]

\* One handler invocation.  pc: the await a frame is suspended at, or how
\* the invocation ended ("returned", or the exception that left it).
\* caught: the call whose exception reached the handler's own except clause.
Invocation(handler, user, pc, data, caught, events) ==
  [handler |-> handler, user |-> user, pc |-> pc, data |-> data,
   caught |-> caught, events |-> events]

Idle == Invocation("none", "none", "idle", <<>>, "none", <<>>)

\* An exception in place of a response.
Raise == <<"<raise>">>
\* In place of a response that has not come yet.
Pending == <<"<pending>">>

\* The suspended coroutines, each once.
Frames == BagToSet(frames)
\* A coroutine suspends / is resumed.
Suspend(f) == frames (+) SetToBag({f})
Resume(f) == frames (-) SetToBag({f})
CanSuspend == BagCardinality(frames) < MaxInflight

\* The awaited calls, had the chat call been awaited too.
AwaitedWithChat(call) ==
  call \in {"reply_text", "answer", "edit_message_text", "get_file",
            "download_as_bytearray", "send_message"}

\* The calls the handlers await; every other call runs to its return
\* without giving up the event loop.
Awaited(call) ==
  call \in {"reply_text", "answer", "edit_message_text", "get_file",
            "download_as_bytearray"}

\* key in dict
HasKey(dict, key) == key \in DOMAIN dict

\* A gate that lets every user through.
RegisteredAlways(u) == TRUE

\* `user_id not in user_grades`, negated: the gate of the two message handlers.
Registered(u) == HasKey(user_grades, u)

\* The environments a deployment can give the process: each of the two
\* variables absent, or set to a value (the bot token perhaps to the empty
\* string).  A chat key that is set is taken to be a usable one.
\* GROQ_API_KEY is read with .get and never used: it is left out.
Environments ==
  { env \in UNION { [names -> {"", "secret"}] :
                      names \in SUBSET {"GEMINI_API_KEY", "TELEGRAM_BOT_TOKEN"} } :
      "GEMINI_API_KEY" \in DOMAIN env => env["GEMINI_API_KEY"] # "" }

\* os.environ.get(name) / os.getenv(name): None for a variable that is not set.
Getenv(env, name) == IF HasKey(env, name) THEN env[name] ELSE ""

\* os.environ[name], with .get in place of the subscript.
SubscriptOrNone(env, name) == Getenv(env, name)

\* os.environ[name]: KeyError for a variable that is not set.
Subscript(env, name) == IF HasKey(env, name) THEN env[name] ELSE "KeyError"

Init ==
  /\ user_grades = << >>
  /\ history = << >>
  /\ frames = EmptyBag
  /\ done = Idle
  /\ environ \in Environments
  /\ process = "import"

\* The module top level up to start_chat: genai.configure is given
\* os.environ["GEMINI_API_KEY"], and the subscript raises when it is not set.
configure ==
  /\ process = "import"
  /\ process' = IF Subscript(environ, "GEMINI_API_KEY") = "KeyError"
                THEN "KeyError" ELSE "start_chat"
  /\ UNCHANGED <<user_grades, history, frames, done, environ>>

\* The rest of the top level and main(): the token check, then the
\* handlers are registered and the application polls.
main ==
  /\ process = "start_chat"
  /\ process' = IF Getenv(environ, "TELEGRAM_BOT_TOKEN") = ""
                THEN "ValueError" ELSE "run_polling"
  /\ UNCHANGED <<user_grades, history, frames, done, environ>>

\* The application is polling: only then is an update dispatched to a
\* handler, and no handler touches the environment.
Polling == process = "run_polling" /\ UNCHANGED <<environ, process>>

\* ----------------------------------------------------------- the services
\* chat_session.send_message: the session keeps the exchange (of which the
\* prompt is recorded here) when the endpoint answers, and nothing when the
\* call raises.
SendMessage(h, prompt, outcome) ==
  IF outcome = Raise THEN h ELSE Append(h, prompt)

\* A session started anew for each call.
ContextFresh(h) == << >>

\* What the session sends along with a new prompt: the prompts it holds.
Context(h) == h

\* The response text returned as it came.
get_homework_help_NoStrip(outcome) ==
  IF outcome = Raise THEN None ELSE outcome

\* get_homework_help: the value returned.
get_homework_help(outcome) ==
  IF outcome = Raise THEN None ELSE Strip(outcome)

\* get_homework_help: the call made.
get_homework_help_calls(question, grade_level, h, outcome) ==
  << Event("send_message", ChatPrompt(question, grade_level), Context(h), outcome) >>

\* A decode failure reported with a text of its own.
analyze_homework_image_DecodeText(image_bytes, outcome) ==
  IF ~Decodable(image_bytes) THEN <<"The image could not be decoded.">>
  ELSE IF outcome = Raise THEN None
  ELSE IF outcome # <<>> THEN Strip(outcome) ELSE None

\* The exception of generate_content handed on instead of None.
analyze_homework_image_Propagates(image_bytes, outcome) ==
  IF ~Decodable(image_bytes) THEN None
  ELSE IF outcome = Raise THEN Raise
  ELSE IF outcome # <<>> THEN Strip(outcome) ELSE None

\* analyze_homework_image: the value returned.
analyze_homework_image(image_bytes, outcome) ==
  IF ~Decodable(image_bytes) \/ outcome = Raise THEN None
  ELSE IF outcome # <<>> THEN Strip(outcome) ELSE None

\* The vision request sent on the chat session instead.
analyze_homework_image_calls_OnSession(image_bytes, grade_level, outcome) ==
  IF Decodable(image_bytes)
  THEN << Event("send_message", ImagePrompt(grade_level) \o <<image_bytes>>,
                <<>>, outcome) >>
  ELSE << >>

\* analyze_homework_image: the call made (none when Image.open raises).
analyze_homework_image_calls(image_bytes, grade_level, outcome) ==
  IF Decodable(image_bytes)
  THEN << Event("generate_content", ImagePrompt(grade_level) \o <<image_bytes>>,
                <<>>, outcome) >>
  ELSE << >>

\* ----------------------------------------------------------- the handlers
\* start: one reply with the keyboard.
start(u) ==
  /\ Polling
  /\ done = Idle
  /\ done' = Invocation("start", u, "returned", <<>>, "none",
                        << Event("reply_text", Welcome, Keyboard, <<>>) >>)
  /\ UNCHANGED <<user_grades, history, frames>>

\* change_grade: one reply with the keyboard.
change_grade(u) ==
  /\ Polling
  /\ done = Idle
  /\ done' = Invocation("change_grade", u, "returned", <<>>, "none",
                        << Event("reply_text", SelectNew, Keyboard, <<>>) >>)
  /\ UNCHANGED <<user_grades, history, frames>>

\* handle_grade_selection, up to `await query.answer()`.
handle_grade_selection(u, data) ==
  /\ Polling
  /\ done = Idle
  /\ MatchesPattern(data)
  /\ CanSuspend
  /\ frames' = Suspend(Invocation("handle_grade_selection", u, "answer", data, "none",
                                  << Event("answer", <<>>, <<>>, <<>>) >>))
  /\ done' = Idle
  /\ UNCHANGED <<user_grades, history>>

\* The text of the confirmation.
Confirmation(grade_range) ==
  <<"Grade level set to: ">> \o grade_range
    \o <<"\n\nYou can now send homework questions or photos to get direct answers.\nUse /change_grade to change the grade level.">>

\* A lookup with a default, GRADE_LEVELS.get(grade_range, grade_range).
GradeLookupDefault(grade_range) ==
  IF HasKey(GRADE_LEVELS, grade_range) THEN GRADE_LEVELS[grade_range] ELSE "other"

\* GRADE_LEVELS[grade_range]: the label, or the KeyError.
GradeLookup(grade_range) ==
  IF HasKey(GRADE_LEVELS, grade_range) THEN GRADE_LEVELS[grade_range] ELSE "KeyError"

\* A store that writes the label into the entry of every user.
SetGradeOfAll(grades, u, label) == [x \in Users |-> label]

\* A store that keeps no entry but the one it writes.
SetGradeAlone(grades, u, label) == [x \in {u} |-> label]

\* A store that takes the entry away when it already holds the label.
SetGradeToggle(grades, u, label) ==
  IF HasKey(grades, u) /\ grades[u] = label
  THEN [x \in DOMAIN grades \ {u} |-> grades[x]]
  ELSE [x \in DOMAIN grades \cup {u} |-> IF x = u THEN label ELSE grades[x]]

\* user_grades[user_id] = label
SetGrade(grades, u, label) ==
  [x \in DOMAIN grades \cup {u} |-> IF x = u THEN label ELSE grades[x]]

\* handle_grade_selection, from the return of query.answer() to its end:
\* the lookup raises KeyError for a remainder that is no key, before
\* anything is stored.
grade_selection_resume(f) ==
  /\ Polling
  /\ done = Idle
  /\ f.handler = "handle_grade_selection"
  /\ f.pc = "answer"
  /\ LET grade_range == Remove(f.data, "grade_")
         label == GradeLookup(grade_range)
     IN IF label # "KeyError"
        THEN /\ user_grades' = SetGrade(user_grades, f.user, label)
             /\ done' = [f EXCEPT !.pc = "returned",
                          !.events = @ \o << Event("edit_message_text",
                                                   Confirmation(grade_range),
                                                   <<>>, <<>>) >>]
        ELSE /\ user_grades' = user_grades
             /\ done' = [f EXCEPT !.pc = "KeyError"]
  /\ frames' = Resume(f)
  /\ UNCHANGED history

\* handle_text_question.  Its chat call is a plain call, so the handler runs
\* from its entry to the reply, which is its last call.
handle_text_question(u) ==
  /\ Polling
  /\ done = Idle
  /\ LET question == QuestionOf(u) IN
     IF ~Registered(u)
     THEN /\ done' = Invocation("handle_text_question", u, "returned", question, "none",
                                << Event("reply_text", ConfigureFirst, <<>>, <<>>) >>)
          /\ UNCHANGED <<user_grades, history, frames>>
     ELSE IF ~HasKey(user_grades, u)
     THEN /\ done' = Invocation("handle_text_question", u, "KeyError", question, "none", <<>>)
          /\ UNCHANGED <<user_grades, history, frames>>
     ELSE /\ Len(history) < MaxHistory
          /\ IF Awaited("send_message")
             THEN /\ CanSuspend
                  /\ frames' = Suspend(Invocation("handle_text_question", u, "send_message",
                         question, "none",
                         get_homework_help_calls(question, user_grades[u], history, Pending)))
                  /\ done' = Idle
                  /\ UNCHANGED <<user_grades, history>>
             ELSE \E outcome \in ChatResponses \cup {Raise} :
                    LET grade_level == user_grades[u]
                        answer == get_homework_help(outcome)
                        calls == get_homework_help_calls(question, grade_level, history,
                                                         outcome)
                        reply == IF Truthy(answer) THEN answer ELSE TextApology
                    IN /\ history' = SendMessage(history, calls[1].arg, outcome)
                       /\ done' = Invocation("handle_text_question", u, "returned",
                                             question, "none",
                                             calls \o << Event("reply_text", reply,
                                                               <<>>, <<>>) >>)
                       /\ UNCHANGED <<user_grades, frames>>

\* photo[0]: the first, smallest size.
FirstSize(photo) == photo[1]

\* photo[-1]: the last, largest size.
LastSize(photo) == photo[Len(photo)]

\* handle_photo, up to `await update.message.reply_text("Analyzing homework...")`.
handle_photo(u, photo) ==
  /\ Polling
  /\ done = Idle
  /\ IF ~Registered(u)
     THEN /\ done' = Invocation("handle_photo", u, "returned", photo, "none",
                                << Event("reply_text", ConfigureFirst, <<>>, <<>>) >>)
          /\ UNCHANGED <<user_grades, history, frames>>
     ELSE /\ CanSuspend
          /\ frames' = Suspend(Invocation("handle_photo", u, "reply_text", photo, "none",
                                          << Event("reply_text", Analyzing, <<>>, <<>>) >>))
          /\ done' = Idle
          /\ UNCHANGED <<user_grades, history>>

\* handle_photo, from the acknowledgment to `await context.bot.get_file(...)`.
photo_get_file(f) ==
  /\ Polling
  /\ done = Idle
  /\ f.handler = "handle_photo"
  /\ f.pc = "reply_text"
  /\ frames' = Resume(f) (+) SetToBag({
       [f EXCEPT !.pc = "get_file",
                 !.events = @ \o << Event("get_file", <<LastSize(f.data)>>,
                                          <<>>, <<>>) >>] })
  /\ done' = Idle
  /\ UNCHANGED <<user_grades, history>>

\* The exception passed on instead of answered.
PhotoExceptPassedOn(f, call) == [f EXCEPT !.pc = "Exception", !.caught = call]

\* The except clause of handle_photo: the exception of `call` is logged and
\* the handler ends with its apology.
PhotoExcept(f, call) ==
  [f EXCEPT !.pc = "returned", !.caught = call,
            !.events = @ \o << Event("reply_text", PhotoErrorApology, <<>>, <<>>) >>]

\* handle_photo, from the outcome of get_file to
\* `await photo_file.download_as_bytearray()`, or through the except clause.
photo_download(f, fetched) ==
  /\ Polling
  /\ done = Idle
  /\ f.handler = "handle_photo"
  /\ f.pc = "get_file"
  /\ IF fetched
     THEN /\ frames' = Resume(f) (+) SetToBag({
               [f EXCEPT !.pc = "download_as_bytearray",
                         !.events = @ \o << Event("download_as_bytearray",
                                                  f.events[Len(f.events)].arg,
                                                  <<>>, <<>>) >>] })
          /\ done' = Idle
     ELSE /\ frames' = Resume(f)
          /\ done' = PhotoExcept(f, "get_file")
  /\ UNCHANGED <<user_grades, history>>

\* What the vision endpoint may do with the bytes (it is not reached when
\* they do not decode).
VisionOutcomes(image_bytes) ==
  IF Decodable(image_bytes) THEN VisionResponses \cup {Raise} ELSE {Raise}

\* handle_photo, from the outcome of the download to its end: the grade is
\* read here, the image service is called without an await, and the reply
\* is the last call.
photo_analyze(f, downloaded) ==
  /\ Polling
  /\ done = Idle
  /\ f.handler = "handle_photo"
  /\ f.pc = "download_as_bytearray"
  /\ frames' = Resume(f)
  /\ IF ~downloaded
     THEN done' = PhotoExcept(f, "download_as_bytearray")
     ELSE IF ~HasKey(user_grades, f.user)
     THEN done' = PhotoExcept(f, "KeyError")
     ELSE LET photo_bytes == FileBytes(f.events[Len(f.events)].arg[1])
              grade_level == user_grades[f.user]
          IN \E outcome \in VisionOutcomes(photo_bytes) :
               LET analysis == analyze_homework_image(photo_bytes, outcome)
                   reply == IF Truthy(analysis) THEN analysis ELSE ImageApology
               IN done' = [f EXCEPT !.pc = "returned",
                            !.events = @ \o analyze_homework_image_calls(
                                              photo_bytes, grade_level, outcome)
                                         \o << Event("reply_text", reply, <<>>, <<>>) >>]
  /\ UNCHANGED <<user_grades, history>>

\* The application is done with the invocation that ended and goes back to
\* its updates and its suspended coroutines.
run_polling ==
  /\ Polling
  /\ done # Idle
  /\ done' = Idle
  /\ UNCHANGED <<user_grades, history, frames>>

\* The updates main() routes to the five handlers, and the resumptions of
\* the suspended coroutines.
Next ==
  \/ configure
  \/ main
  \/ \E u \in Users : start(u)
  \/ \E u \in Users : change_grade(u)
  \/ \E u \in Users : \E data \in CallbackData(u) : handle_grade_selection(u, data)
  \/ \E f \in Frames : grade_selection_resume(f)
  \/ \E u \in Users : handle_text_question(u)
  \/ \E u \in Users : \E photo \in PhotoInputs(u) : handle_photo(u, photo)
  \/ \E f \in Frames : photo_get_file(f)
  \/ \E f \in Frames, fetched \in BOOLEAN : photo_download(f, fetched)
  \/ \E f \in Frames, downloaded \in BOOLEAN : photo_analyze(f, downloaded)
  \/ run_polling

Spec == Init /\ [][Next]_vars

\* ------------------------------------------------------------ observation
\* The invocations a state shows: the suspended ones and the one that ended
\* in the last step.
Invocations == Frames \cup {done}

\* The positions of the calls of `call` in an invocation's events.
CallsOf(inv, call) == { i \in DOMAIN inv.events : inv.events[i].call = call }

\* t occurs in s as a run of consecutive tokens.
IsInfix(t, s) ==
  \E i \in 0..(Len(s) - Len(t)) : SubSeq(s, i + 1, i + Len(t)) = t

MessageHandlers == {"handle_text_question", "handle_photo"}

\* ----------------------------------------------------------------- claims
\* C1: a text or photo message of a user with no entry in user_grades gets
\* exactly the one reply "Please set your child's grade level first using
\* /start" and nothing else: no chat call, no vision call, no get_file, no
\* download, no "Analyzing homework..."; such a handler never gets past its
\* gate to an await.
C1_UnregisteredGetsConfigureFirstOnly ==
  /\ \A f \in Frames :
       f.handler \in MessageHandlers => f.user \in DOMAIN user_grades
  /\ (done.handler \in MessageHandlers /\ done.user \notin DOMAIN user_grades)
       => /\ done.pc = "returned"
          /\ done.events = << Event("reply_text", ConfigureFirst, <<>>, <<>>) >>

\* C1's case: B, without an entry, has a photo answered while A has an
\* entry, an exchange in the session and a coroutine suspended.
C1_Witness ==
  /\ done.handler = "handle_photo" /\ done.user = "B"
  /\ "B" \notin DOMAIN user_grades /\ "A" \in DOMAIN user_grades
  /\ history # <<>> /\ frames # EmptyBag

\* C2: a text message of a user with an entry makes exactly one
\* send_message call, also when it raises, and its prompt holds the message
\* text and the label user_grades holds for the user as the handler runs.
C2_OneChatCallWithQuestionAndGrade ==
  (done.handler = "handle_text_question" /\ done.user \in DOMAIN user_grades)
    => /\ Cardinality(CallsOf(done, "send_message")) = 1
       /\ CallsOf(done, "generate_content") = {}
       /\ \A i \in CallsOf(done, "send_message") :
            /\ IsInfix(done.data, done.events[i].arg)
            /\ IsInfix(<<"You are helping with ", user_grades[done.user]>>,
                       done.events[i].arg)

\* C2's case: the one call of a registered user's question raised.
C2_Witness ==
  /\ done.handler = "handle_text_question" /\ done.user \in DOMAIN user_grades
  /\ \E i \in CallsOf(done, "send_message") : done.events[i].result = Raise
  /\ user_grades[done.user] = "high"

\* C3: every value user_grades holds is one of elementary, middle, high,
\* also after callbacks that match ^grade_ with a remainder that is no token.
C3_StoredGradesAreLabels ==
  \A u \in DOMAIN user_grades : user_grades[u] \in {"elementary", "middle", "high"}

\* C3's case: a selection whose remainder is no token has just been handled
\* for a user.
C3_Witness ==
  /\ done.handler = "handle_grade_selection"
  /\ done.data = <<"grade_", "13+">>
  /\ done.pc = "KeyError"
  /\ done.user \in DOMAIN user_grades

\* C4: a selection with one of the three tokens ends with the user's entry
\* equal to the token's label (1-5 elementary, 6-8 middle, 9-12 high),
\* whatever the entry was before; the entry is one label.
C4_SelectionStoresTheLabel ==
  \A pair \in { <<"1-5", "elementary">>, <<"6-8", "middle">>, <<"9-12", "high">> } :
    (done.handler = "handle_grade_selection" /\ done.data = <<"grade_", pair[1]>>)
      => /\ done.pc = "returned"
         /\ done.user \in DOMAIN user_grades
         /\ user_grades[done.user] = pair[2]

\* C4's case: A selects 6-8 after a question was asked for A as elementary.
C4_Witness ==
  /\ done.handler = "handle_grade_selection" /\ done.user = "A"
  /\ done.data = <<"grade_", "6-8">>
  /\ \E i \in DOMAIN history :
       IsInfix(<<"elementary">>, history[i]) /\ IsInfix(QuestionOf("A"), history[i])

\* t is r without its leading and trailing whitespace.
Trimmed(t, r) ==
  \E i \in 1..(Len(r) + 1), j \in 0..Len(r) :
    /\ t = SubSeq(r, i, j)
    /\ \A k \in 1..(i - 1) : r[k] \in Whitespace
    /\ \A k \in (j + 1)..Len(r) : r[k] \in Whitespace
    /\ t # <<>> => (t[1] \notin Whitespace /\ t[Len(t)] \notin Whitespace)

\* r holds nothing but whitespace (the empty text included).
Blank(r) == \A k \in DOMAIN r : r[k] \in Whitespace

\* The last call of an invocation.
LastEvent(inv) == inv.events[Len(inv.events)]

\* C5: a registered user's text message gets exactly one reply: the trimmed
\* response text when the answer service returns a non-empty text, and
\* "Sorry, I couldn't process that question. Please try again." when the
\* call raised or the trimmed text is empty.
C5_TextReplyIsAnswerOrApology ==
  (done.handler = "handle_text_question" /\ done.user \in DOMAIN user_grades)
    => /\ Cardinality(CallsOf(done, "reply_text")) = 1
       /\ LastEvent(done).call = "reply_text"
       /\ \A i \in CallsOf(done, "send_message") :
            LET r == done.events[i].result
                reply == LastEvent(done).arg
            IN IF r = Raise \/ Blank(r)
               THEN reply = TextApology
               ELSE reply # <<>> /\ Trimmed(reply, r)

\* C5's case: the response " 56\n" is answered with "56".
C5_Witness ==
  /\ done.handler = "handle_text_question"
  /\ done.events # <<>>
  /\ LastEvent(done).arg = <<"56">>

\* Whether the image answer service had nothing to return for a photo whose
\* download succeeded: the bytes do not decode, generate_content raised, or
\* its text is empty or blank.
PhotoAnalysisAbsent(inv) ==
  /\ inv.handler = "handle_photo"
  /\ inv.pc = "returned"
  /\ CallsOf(inv, "download_as_bytearray") # {}
  /\ inv.caught # "download_as_bytearray"
  /\ \/ inv.data[Len(inv.data)] = "torn"
     \/ \E i \in CallsOf(inv, "generate_content") :
          inv.events[i].result = Raise \/ Blank(inv.events[i].result)

\* C6: when the image answer service yields absence for a registered user's
\* photo, the handler returns without an exception, its except clause is not
\* entered, and its reply after the acknowledgment is "Sorry, I couldn't
\* read that image. Please try a clearer photo.", for a decode failure as
\* for an inference failure.
C6_AbsentAnalysisGetsImageApology ==
  PhotoAnalysisAbsent(done)
    => /\ done.caught = "none"
       /\ LastEvent(done) = Event("reply_text", ImageApology, <<>>, <<>>)
       /\ Cardinality(CallsOf(done, "reply_text")) = 2

\* C6's case: the downloaded bytes do not decode.
C6_Witness ==
  /\ PhotoAnalysisAbsent(done)
  /\ done.data[Len(done.data)] = "torn"
  /\ CallsOf(done, "generate_content") = {}

\* C7: the calls of one handle_photo invocation of a registered user come
\* in this order: the acknowledgment first; then get_file of the last size;
\* then the download of that file; then at most one generate_content, with
\* the downloaded bytes and the user's label; then the final reply, which is
\* the last call and comes after the outcome of generate_content.
C7_PhotoCallsInOrder ==
  \A inv \in Invocations :
    (inv.handler = "handle_photo" /\ inv.user \in DOMAIN user_grades)
      => LET e == inv.events
             n == Len(e)
         IN /\ n >= 1
            /\ e[1] = Event("reply_text", Analyzing, <<>>, <<>>)
            /\ \A i \in CallsOf(inv, "get_file") :
                 i = 2 /\ e[i].arg = <<inv.data[Len(inv.data)]>>
            /\ \A i \in CallsOf(inv, "download_as_bytearray") :
                 i = 3 /\ e[2].call = "get_file" /\ e[i].arg = e[2].arg
            /\ \A i \in CallsOf(inv, "generate_content") :
                 /\ i = 4 /\ e[3].call = "download_as_bytearray"
                 /\ e[i].arg[Len(e[i].arg)] = FileBytes(e[3].arg[1])
                 /\ IsInfix(<<"You are helping with ", user_grades[inv.user]>>, e[i].arg)
                 /\ e[i].result # Pending
            /\ \A i \in CallsOf(inv, "reply_text") :
                 i = 1 \/ (i = n /\ inv.pc = "returned")
            /\ inv.pc = "returned" => (n >= 2 /\ e[n].call = "reply_text")
            /\ CallsOf(inv, "send_message") = {}

\* C7's case: a photo answered with the text of the vision call.
C7_Witness ==
  /\ done.handler = "handle_photo"
  /\ CallsOf(done, "generate_content") = {4}
  /\ Len(done.events) = 5
  /\ done.events[5].arg = <<"1) 56">>

\* C8: every send_message call, of whichever user, goes to the one session:
\* its context is all the prompts the session held before the call, from
\* every user's answered questions, and an answered call adds its prompt.
C8_ChatCallsShareOneHistory ==
  (done.handler = "handle_text_question")
    => \A i \in CallsOf(done, "send_message") :
         LET e == done.events[i]
         IN IF e.result = Raise
            THEN history = e.extra
            ELSE history = Append(e.extra, e.arg)

\* C8's case: the context of B's call holds the prompt of A's question.
C8_Witness ==
  /\ done.handler = "handle_text_question" /\ done.user = "B"
  /\ \E i \in CallsOf(done, "send_message") :
       \E k \in DOMAIN done.events[i].extra :
         IsInfix(QuestionOf("A"), done.events[i].extra[k])

\* C9 as stated: a text handler is suspended at its send_message call, so
\* no handler makes the call and also ends within one uninterrupted step.
C9_TextHandlerSuspendsAtChatCall ==
  done.handler = "handle_text_question" => CallsOf(done, "send_message") = {}

\* C9, amended: send_message is not awaited, so no handler is ever suspended
\* between the start and the return of a chat call: every send_message call
\* a state shows has returned, and no other handler's call falls between
\* its start and its return.
C9_ChatCallNeverPending ==
  \A inv \in Invocations :
    /\ inv.pc # "send_message"
    /\ \A i \in CallsOf(inv, "send_message") : inv.events[i].result # Pending

\* C9's case: A's question is answered after B's, while a photo handler is
\* suspended at an await.
C9_Witness ==
  /\ done.handler = "handle_text_question" /\ done.user = "A"
  /\ \E i \in CallsOf(done, "send_message") :
       \E k \in DOMAIN done.events[i].extra :
         IsInfix(QuestionOf("B"), done.events[i].extra[k])
  /\ \E f \in Frames : f.handler = "handle_photo"

\* C10 as stated: no handler ever receives the exception of an external
\* call.
C10_NoHandlerCatchesAnException ==
  \A inv \in Invocations : inv.caught = "none"

\* C10, amended: the failures of send_message, generate_content and
\* Image.open are turned into absence inside the two services (the handler
\* replies with its apology and its except clause is not entered); the
\* failures of get_file and download_as_bytearray reach handle_photo as
\* exceptions, which its except clause answers with the photo-error apology
\* without a vision call.
C10_OnlyTransportFailuresReachTheHandler ==
  \A inv \in Invocations :
    /\ inv.caught \in {"none", "get_file", "download_as_bytearray"}
    /\ inv.caught # "none"
         => /\ inv.handler = "handle_photo" /\ inv.pc = "returned"
            /\ LastEvent(inv) = Event("reply_text", PhotoErrorApology, <<>>, <<>>)
            /\ LastEvent(inv).call # inv.caught
            /\ CallsOf(inv, inv.caught) # {}
            /\ CallsOf(inv, "generate_content") = {}
    /\ \A i \in CallsOf(inv, "send_message") :
         inv.events[i].result = Raise
           => inv.caught = "none" /\ inv.pc = "returned"
              /\ LastEvent(inv).arg = TextApology
    /\ \A i \in CallsOf(inv, "generate_content") :
         inv.events[i].result = Raise
           => inv.caught = "none" /\ inv.pc = "returned"
              /\ LastEvent(inv).arg = ImageApology

\* C10's case: the download failed and the except clause replied.
C10_Witness ==
  /\ done.handler = "handle_photo"
  /\ done.caught = "download_as_bytearray"

\* ------------------------------------------------------------------ C11
\* C11 as stated: with the bot token present and the chat key absent,
\* startup is not aborted.
C11_MissingChatKeyDoesNotAbort ==
  (Getenv(environ, "TELEGRAM_BOT_TOKEN") # "" /\ ~HasKey(environ, "GEMINI_API_KEY"))
    => process \notin {"KeyError", "ValueError"}

\* C11, amended: the process polls only when both the chat key and a
\* non-empty bot token are set; with the chat key absent it never gets
\* past the import (it ends with KeyError, whatever the bot token is) and
\* no update is ever handled.
C11_MissingChatKeyAbortsStartup ==
  /\ process = "run_polling"
       => /\ HasKey(environ, "GEMINI_API_KEY")
          /\ Getenv(environ, "TELEGRAM_BOT_TOKEN") # ""
  /\ ~HasKey(environ, "GEMINI_API_KEY")
       => /\ process \in {"import", "KeyError"}
          /\ user_grades = << >> /\ history = << >>
          /\ frames = EmptyBag /\ done = Idle

C11_Witness ==
  /\ Getenv(environ, "TELEGRAM_BOT_TOKEN") # ""
  /\ ~HasKey(environ, "GEMINI_API_KEY")
  /\ process = "KeyError"

\* ------------------------------------------------------------------ C12
\* The three buttons: token and label.
Buttons == { <<"1-5", "elementary">>, <<"6-8", "middle">>, <<"9-12", "high">> }

\* The step in which a grade selection of user u with data `data` returns.
SelectionReturns(u, data) ==
  /\ done = Idle
  /\ done'.handler = "handle_grade_selection" /\ done'.pc = "returned"
  /\ done'.user = u /\ done'.data = data

\* C12: a selection of a token by a user whose entry already holds that
\* token's label (the state an earlier selection of the same token by that
\* user leaves) changes nothing in user_grades, and it is confirmed like
\* every selection of the token: its last call is edit_message_text with
\* the text that starts "Grade level set to: <token>".
C12_SameTokenAgainIsIdempotent ==
  [][\A u \in Users, b \in Buttons :
       SelectionReturns(u, <<"grade_", b[1]>>)
         => /\ (u \in DOMAIN user_grades /\ user_grades[u] = b[2])
                 => user_grades' = user_grades
            /\ LastEvent(done').call = "edit_message_text"
            /\ SubSeq(LastEvent(done').arg, 1, 2) = <<"Grade level set to: ", b[1]>>
            /\ Cardinality(CallsOf(done', "edit_message_text")) = 1]_vars

\* C12's case: a selection of 6-8 by A has returned and stored "middle"
\* while a second selection of 6-8 by A is acknowledged and about to store.
C12_Witness ==
  /\ done.handler = "handle_grade_selection" /\ done.pc = "returned"
  /\ done.user = "A" /\ done.data = <<"grade_", "6-8">>
  /\ user_grades["A"] = "middle"
  /\ \E f \in Frames : /\ f.handler = "handle_grade_selection"
                       /\ f.user = "A" /\ f.data = <<"grade_", "6-8">>

\* ------------------------------------------------------------------ C13
\* C13: a /start or /change_grade command, of a user with or without an
\* entry, makes exactly one call, a reply_text whose keyboard offers
\* grade_1-5, grade_6-8 and grade_9-12 and nothing else; it makes no chat
\* and no vision call and leaves user_grades (and the chat history) as it
\* was.
C13_CommandsPromptAndChangeNothing ==
  [][(done = Idle /\ done'.handler \in {"start", "change_grade"})
       => /\ done'.pc = "returned"
          /\ Len(done'.events) = 1
          /\ done'.events[1].call = "reply_text"
          /\ Len(done'.events[1].extra) = 3
          /\ { done'.events[1].extra[i] : i \in 1..3 }
               = { <<"grade_", "1-5">>, <<"grade_", "6-8">>, <<"grade_", "9-12">> }
          /\ user_grades' = user_grades
          /\ history' = history]_vars

\* C13's case: /change_grade of A, who has an entry, has been handled while
\* B has none.
C13_Witness ==
  /\ done.handler = "change_grade" /\ done.user = "A"
  /\ DOMAIN user_grades = {"A"}

\* ------------------------------------------------------------------ C14
\* An update of every type can be dispatched for user u.
EveryEventEnabled(u) ==
  /\ ENABLED start(u)
  /\ ENABLED change_grade(u)
  /\ \A data \in { d \in CallbackData(u) : MatchesPattern(d) } :
       ENABLED handle_grade_selection(u, data)
  /\ ENABLED handle_text_question(u)
  /\ \A photo \in PhotoInputs(u) : ENABLED handle_photo(u, photo)

\* The model's bounds leave room for one more coroutine and one more
\* exchange.
WithinBounds == CanSuspend /\ Len(history) < MaxHistory

\* C14: no step removes an entry of user_grades, and the step that creates
\* the entry of u is the return of a grade selection of u; while the
\* application polls there is always a next step, and (within the model's
\* bounds, once the polling loop has taken the ended invocation away) an
\* update of every type can be dispatched for every user.
C14_EntriesStayAndEventsStayEnabled ==
  /\ [][/\ DOMAIN user_grades \subseteq DOMAIN user_grades'
        /\ \A u \in DOMAIN user_grades' \ DOMAIN user_grades :
             /\ done'.handler = "handle_grade_selection"
             /\ done'.user = u /\ done'.pc = "returned"]_vars
  /\ [](process = "run_polling"
          => /\ ENABLED Next
             /\ done # Idle => ENABLED run_polling
             /\ (done = Idle /\ WithinBounds)
                  => \A u \in Users : EveryEventEnabled(u))

\* C14's case: both users have an entry, a question has been asked and a
\* photo of A has just failed at get_file.
C14_Witness ==
  /\ DOMAIN user_grades = Users
  /\ history # << >>
  /\ done.handler = "handle_photo" /\ done.user = "A" /\ done.caught = "get_file"

\* ------------------------------------------------------------------ C15
\* The entry of x is the same in both registries (absent in both, or the
\* same label).
SameEntry(old, new, x) ==
  /\ x \in DOMAIN old <=> x \in DOMAIN new
  /\ x \in DOMAIN old => new[x] = old[x]

\* C15: a step that changes user_grades is the return of a grade selection,
\* and it changes the entry of that selection's user alone; so no step of
\* a text or photo handler (gate, acknowledgment, download, analysis,
\* reply or apology) changes any entry.
C15_OnlySelectionWritesOwnEntry ==
  [][/\ user_grades' # user_grades
          => /\ done'.handler = "handle_grade_selection"
             /\ done'.pc = "returned"
             /\ \A x \in Users \ {done'.user} : SameEntry(user_grades, user_grades', x)
     /\ (\/ done'.handler \in MessageHandlers
         \/ \E f \in Frames \cup BagToSet(frames') :
              f.handler = "handle_photo" /\ CopiesIn(f, frames) # CopiesIn(f, frames'))
          => user_grades' = user_grades]_vars

\* C15's case: B's selection of 9-12 has returned while A keeps the entry
\* "middle" and a photo of A is suspended.
C15_Witness ==
  /\ done.handler = "handle_grade_selection" /\ done.pc = "returned"
  /\ done.user = "B"
  /\ DOMAIN user_grades = Users
  /\ user_grades["A"] = "middle" /\ user_grades["B"] = "high"
  /\ \E f \in Frames : f.handler = "handle_photo" /\ f.user = "A"

\* ------------------------------------------------------------------ C16
\* C16: no handle_photo invocation, suspended or ended, makes a
\* send_message call (its model call is the one generate_content); every
\* entry of the session's history is the prompt of some user's text
\* question; and a step that changes the history is the return of a text
\* handler whose answered chat call added its own prompt, so no step of a
\* photo handler changes it.
C16_PhotoPathLeavesSessionAlone ==
  /\ [](/\ \A inv \in Invocations :
             inv.handler = "handle_photo" => CallsOf(inv, "send_message") = {}
        /\ \A i \in DOMAIN history :
             \E u \in Users, b \in Buttons :
               history[i] = ChatPrompt(QuestionOf(u), b[2]))
  /\ [][history' # history
          => /\ done'.handler = "handle_text_question"
             /\ \E i \in CallsOf(done', "send_message") :
                  history' = Append(history, done'.events[i].arg)]_vars

\* C16's case: A's photo has been analysed by a generate_content call and
\* answered while the session holds exactly one exchange, a text question's.
C16_Witness ==
  /\ done.handler = "handle_photo" /\ done.pc = "returned"
  /\ CallsOf(done, "generate_content") # {}
  /\ LastEvent(done).arg = <<"1) 56">>
  /\ Len(history) = 1

\* ------------------------------------------------------------------ C17
\* The transport calls of handle_photo that may fail after the
\* acknowledgment.
TransportCalls == {"get_file", "download_as_bytearray"}

\* C17: when get_file or download_as_bytearray fails in handle_photo, the
\* handler returns (no exception leaves it) having made no generate_content
\* call and, after the acknowledgment, exactly one more reply: "Sorry,
\* there was an error processing your photo. Please try again."; the step
\* in which it fails leaves user_grades as it was.
C17_TransportFailureGetsPhotoApology ==
  /\ []((done.handler = "handle_photo" /\ done.caught \in TransportCalls)
          => /\ done.pc = "returned"
             /\ CallsOf(done, "generate_content") = {}
             /\ done.events[1] = Event("reply_text", <<"Analyzing homework...">>, <<>>, <<>>)
             /\ LastEvent(done).call = "reply_text"
             /\ LastEvent(done).arg
                  = <<"Sorry, there was an error processing your photo. Please try again.">>
             /\ CallsOf(done, "reply_text") = {1, Len(done.events)}
             /\ done.caught = "get_file" => CallsOf(done, "download_as_bytearray") = {})
  /\ [][(done'.handler = "handle_photo" /\ done'.caught \in TransportCalls)
          => user_grades' = user_grades]_vars

\* C17's case: the download of a photo of A, who has an entry, has failed.
C17_Witness ==
  /\ done.handler = "handle_photo" /\ done.user = "A"
  /\ done.caught = "download_as_bytearray"
  /\ "A" \in DOMAIN user_grades

\* ------------------------------------------------------------------ C18
\* C18: the label in a photo handler's generate_content call is the entry
\* the user has in the state the handler ends in: the call and the return
\* fall in the one step after the download, so it is the entry as left by
\* every selection handled while the handler was suspended.  A handler
\* suspended at the acknowledgment, get_file or the download has made no
\* vision call, its user has an entry, and no photo handler meets a
\* KeyError at the read.
C18_VisionCallCarriesCurrentLabel ==
  /\ (done.handler = "handle_photo"
        => \A i \in CallsOf(done, "generate_content") :
             /\ done.user \in DOMAIN user_grades
             /\ done.events[i].arg[2] = user_grades[done.user]
             /\ i > 1 /\ done.events[i - 1].call = "download_as_bytearray")
  /\ \A inv \in Invocations :
       inv.handler = "handle_photo"
         => /\ inv.pc # "KeyError" /\ inv.caught # "KeyError"
            /\ inv \in Frames
                 => /\ CallsOf(inv, "generate_content") = {}
                    /\ inv.user \in DOMAIN user_grades

\* C18's case: A's selection of 9-12 has returned and stored "high" while
\* a photo handler of A is suspended at the download, its label not yet
\* read.
C18_Witness ==
  /\ done.handler = "handle_grade_selection" /\ done.user = "A"
  /\ done.data = <<"grade_", "9-12">> /\ done.pc = "returned"
  /\ user_grades["A"] = "high"
  /\ \E f \in Frames : /\ f.handler = "handle_photo" /\ f.user = "A"
                       /\ f.pc = "download_as_bytearray"

\* ------------------------------------------------------------------ C19
\* The callback_data of the three buttons without the prefix.
Tokens == { <<"1-5">>, <<"6-8">>, <<"9-12">> }

\* The step in which a grade selection ends (main() routes to the handler
\* only data that matches ^grade_).
SelectionEnds ==
  /\ done = Idle
  /\ done'.handler = "handle_grade_selection"
  /\ MatchesPattern(done'.data)

\* The acknowledged selection failed at the lookup: nothing was stored and
\* no confirmation was sent.
FailsOnLookup ==
  /\ done'.pc = "KeyError"
  /\ done'.events = << Event("answer", <<>>, <<>>, <<>>) >>
  /\ user_grades' = user_grades

\* C19 as stated: a selection whose data has, behind the prefix grade_,
\* something that is none of the three tokens fails on the lookup.
C19_NonTokenRemainderFailsOnLookup ==
  [][(SelectionEnds /\ Tail(done'.data) \notin Tokens) => FailsOnLookup]_vars

NotThePrefix(tok) == tok # "grade_"

\* C19, amended: the handler looks up the data with every occurrence of
\* grade_ taken out, not the text behind the prefix.  When that is none of
\* the three tokens the acknowledged selection fails on the lookup, stores
\* nothing and sends no confirmation; when it is one (as for
\* grade_grade_6-8) the label is stored and confirmed like a button's.
C19_LookupOfDataWithoutEveryPrefix ==
  [][SelectionEnds
       => IF SelectSeq(done'.data, NotThePrefix) \in Tokens
          THEN /\ done'.pc = "returned"
               /\ LastEvent(done').call = "edit_message_text"
               /\ SubSeq(LastEvent(done').arg, 1, 2)
                    = <<"Grade level set to: ">> \o SelectSeq(done'.data, NotThePrefix)
               /\ done'.user \in DOMAIN user_grades'
          ELSE FailsOnLookup]_vars

\* C19's case: B, who has no entry, sent grade_13+; the handler ended with
\* KeyError and B still has none, while A keeps an entry.
C19_Witness ==
  /\ done.handler = "handle_grade_selection" /\ done.user = "B"
  /\ done.data = <<"grade_", "13+">> /\ done.pc = "KeyError"
  /\ DOMAIN user_grades = {"A"}

====
